---- MODULE Spec2Model ----
(***************************************************************************)
(* Model of whatsapp-mcp-server/audio.py: convert_to_opus_ogg (the         *)
(* Transcoder), convert_to_opus_ogg_temp (the Ephemeral Transcoder) and    *)
(* the __main__ command line, run by several concurrent callers over one   *)
(* file system.  Paths are sequences of one-character strings, so that     *)
(* os.path.splitext and os.path.dirname are computed, not assumed.         *)
(***************************************************************************)
EXTENDS Integers, Sequences, FiniteSets, TLC

VARIABLES proc, files, dirs, ffmpeg_installed

vars == <<proc, files, dirs, ffmpeg_installed>>

\* ------------------------------------------------------------------ bounds
NumCalls == 2        \* concurrent invocations
MaxTemp == 2         \* names tempfile can hand out
MaxLen == 4          \* longest input path of the path-derivation check

Calls == 1..NumCalls

None == <<"None">>   \* Python's None where a path or a text is expected
NoExc == [type |-> "None", msg |-> <<>>]   \* no exception
NotRun == 0 - 1      \* no exit status yet

\* ------------------------------------------------------------------- paths
Ogg == <<".", "o", "g", "g">>

RFind(p, ch) ==
    LET hits == {i \in 1..Len(p) : p[i] = ch}
    IN  IF hits = {} THEN 0 ELSE CHOOSE i \in hits : \A j \in hits : j <= i

\* variant: cuts at the first dot of the last component
SplitextRootAtFirstDot(p) ==
    LET sepIndex == RFind(p, "/")
        dots == {i \in (sepIndex + 1)..Len(p) : p[i] = "."}
        dotIndex == IF dots = {} THEN 0 ELSE CHOOSE i \in dots : \A j \in dots : i <= j
    IN  IF dotIndex > sepIndex /\ \E i \in (sepIndex + 1)..(dotIndex - 1) : p[i] # "."
        THEN SubSeq(p, 1, dotIndex - 1)
        ELSE p

\* posixpath.splitext(p)[0]: cut at the last dot of the last component,
\* unless only dots precede it there.
SplitextRoot(p) ==
    LET sepIndex == RFind(p, "/")
        dotIndex == RFind(p, ".")
    IN  IF dotIndex > sepIndex /\ \E i \in (sepIndex + 1)..(dotIndex - 1) : p[i] # "."
        THEN SubSeq(p, 1, dotIndex - 1)
        ELSE p

\* output_file = os.path.splitext(input_file)[0] + ".ogg"
DeriveOutput(input_file) == SplitextRoot(input_file) \o Ogg

RECURSIVE RStripSlash(_)
RStripSlash(p) ==
    IF p # <<>> /\ p[Len(p)] = "/" THEN RStripSlash(SubSeq(p, 1, Len(p) - 1)) ELSE p

\* posixpath.dirname
Dirname(p) ==
    LET head == SubSeq(p, 1, RFind(p, "/"))
    IN  IF head # <<>> /\ \E i \in 1..Len(head) : head[i] # "/"
        THEN RStripSlash(head)
        ELSE head

\* ------------------------------------------------------------ file system
\* files: path -> [by: the call that created the file (0: it was there
\* before), wr: the call whose encoder wrote it last (0: none), data].
\* dirs: path -> the call that created the directory (0: it was there before).
Exists(p) == p \in DOMAIN files \/ p \in DOMAIN dirs
IsFile(p) == p \in DOMAIN files
Without(f, p) == [q \in DOMAIN f \ {p} |-> f[q]]
With(f, p, v) == [q \in DOMAIN f \cup {p} |-> IF q = p THEN v ELSE f[q]]

TempDir == <<"/", "T">>
TempLetters == <<"p", "q", "r", "s", "u", "v">>
TempName(i) == TempDir \o <<"/", TempLetters[i]>> \o Ogg
TempNames == {TempName(i) : i \in 1..MaxTemp}

ExistingInput == <<"a", ".", "w">>
MissingInput == <<"m", ".", "w">>
InputPaths == {ExistingInput, MissingInput}
OutDir == <<"d">>
ExplicitOutputs == {OutDir \o <<"/", "x">> \o Ogg}
Script == <<"audio.py">>

\* -------------------------------------------------------------- exceptions
InputNotFound(input_file) ==
    [type |-> "FileNotFoundError",
     msg |-> <<"Arquivo de entrada nao encontrado: ">> \o input_file]

\* variant: the message leaves the captured standard error out
EncodingFailedNoStderr(stderr) ==
    [type |-> "RuntimeError",
     msg |-> <<"Falha ao converter audio. Voce provavelmente precisa instalar o ffmpeg ">>]

\* RuntimeError(f"Falha ao converter ... instalar o ffmpeg {e.stderr}")
EncodingFailed(stderr) ==
    [type |-> "RuntimeError",
     msg |-> <<"Falha ao converter audio. Voce provavelmente precisa instalar o ffmpeg ">>
             \o stderr]

\* what subprocess.run raises when the executable cannot be started
EncoderNotStarted ==
    [type |-> "FileNotFoundError",
     msg |-> <<"[Errno 2] No such file or directory: ", "ffmpeg">>]

\* what os.makedirs raises when the leaf directory is already there
DirExists(d) ==
    [type |-> "FileExistsError", msg |-> <<"[Errno 17] File exists: ">> \o d]

\* what os.unlink raises when the file is not there
UnlinkMissing(p) ==
    [type |-> "FileNotFoundError",
     msg |-> <<"[Errno 2] No such file or directory: ">> \o p]

\* the encoder's possible standard-error texts, as sequences of lines
Stderrs == {<<"ffmpeg: command not found">>,
            <<"Invalid data found", "Conversion failed!">>}

\* ------------------------------------------------------------------- calls
Idle ==
    [pc |-> "idle", kind |-> "none", argv |-> <<>>,
     input_file |-> None, output_arg |-> None, output_file |-> None,
     temp_file |-> None, exc |-> NoExc, delegated |-> NoExc, result |-> None,
     spawned |-> 0, returncode |-> NotRun, stderr |-> None,
     printed |-> None, exit_status |-> NotRun]

\* How control leaves the outermost function of a call.  For the command
\* line (lines 105-110) the result or the caught exception is printed and
\* the process exits; otherwise the caller receives it.
TopReturn(p, path) ==
    IF p.kind = "cli"
    THEN [p EXCEPT !.pc = "done", !.result = path,
                   !.printed = <<"Convertido com sucesso para: ">> \o path,
                   !.exit_status = 0]
    ELSE [p EXCEPT !.pc = "done", !.result = path]

TopRaise(p, e) ==
    IF p.kind = "cli"
    THEN [p EXCEPT !.pc = "done", !.exc = e,
                   !.printed = <<"Erro: ">> \o e.msg, !.exit_status = 1]
    ELSE [p EXCEPT !.pc = "done", !.exc = e]

\* How control leaves convert_to_opus_ogg: to its caller, or into lines
\* 87-88 of convert_to_opus_ogg_temp.
TranscoderReturn(p) ==
    IF p.kind = "transcode"
    THEN TopReturn(p, p.output_file)
    ELSE TopReturn(p, p.temp_file)

TranscoderRaise(p, e) ==
    IF p.kind = "transcode"
    THEN TopRaise(p, e)
    ELSE [p EXCEPT !.pc = "e_exists", !.exc = e, !.delegated = e]

\* ------------------------------------------------- convert_to_opus_ogg
StartTranscode(c) ==
    /\ proc[c].pc = "idle"
    /\ \E i \in InputPaths, o \in {None} \cup ExplicitOutputs :
         proc' = [proc EXCEPT ![c] =
                    [Idle EXCEPT !.pc = "t_check", !.kind = "transcode",
                                 !.input_file = i, !.output_arg = o,
                                 !.output_file = o]]
    /\ UNCHANGED <<files, dirs, ffmpeg_installed>>

\* variant: the input is not validated
CheckInputNoValidation(c) ==
    LET p == proc[c] IN
    /\ p.pc = "t_check"
    /\ proc' = [proc EXCEPT ![c] =
                 [p EXCEPT !.pc = "t_dir",
                           !.output_file = IF p.output_file = None
                                           THEN DeriveOutput(p.input_file)
                                           ELSE p.output_file]]
    /\ UNCHANGED <<files, dirs, ffmpeg_installed>>

\* lines 23-28: validate the input, then resolve the output path
CheckInput(c) ==
    LET p == proc[c] IN
    /\ p.pc = "t_check"
    /\ proc' = [proc EXCEPT ![c] =
                 IF ~IsFile(p.input_file)
                 THEN TranscoderRaise(p, InputNotFound(p.input_file))
                 ELSE [p EXCEPT !.pc = "t_dir",
                                !.output_file = IF p.output_file = None
                                                THEN DeriveOutput(p.input_file)
                                                ELSE p.output_file]]
    /\ UNCHANGED <<files, dirs, ffmpeg_installed>>

\* lines 31-32: output_dir and not os.path.exists(output_dir)
CheckOutputDir(c) ==
    LET p == proc[c]
        output_dir == Dirname(p.output_file)
    IN
    /\ p.pc = "t_dir"
    /\ proc' = [proc EXCEPT ![c].pc =
                 IF output_dir # <<>> /\ ~Exists(output_dir)
                 THEN "t_mkdir" ELSE "t_run"]
    /\ UNCHANGED <<files, dirs, ffmpeg_installed>>

\* os.makedirs(name): the missing ancestors, then the leaf
RECURSIVE MissingChain(_)
MissingChain(d) ==
    IF d = <<>> \/ Exists(d) \/ Dirname(d) = d
    THEN {}
    ELSE {d} \cup MissingChain(Dirname(d))

\* line 33: os.makedirs(output_dir), exist_ok left at False
MakeDirs(c) ==
    LET p == proc[c]
        output_dir == Dirname(p.output_file)
        made == MissingChain(output_dir)
    IN
    /\ p.pc = "t_mkdir"
    /\ IF Exists(output_dir)
       THEN /\ proc' = [proc EXCEPT ![c] = TranscoderRaise(p, DirExists(output_dir))]
            /\ UNCHANGED dirs
       ELSE /\ proc' = [proc EXCEPT ![c].pc = "t_run"]
            /\ dirs' = [d \in DOMAIN dirs \cup made |->
                          IF d \in DOMAIN dirs THEN dirs[d] ELSE c]
    /\ UNCHANGED <<files, ffmpeg_installed>>

\* line 52: subprocess.run starts ffmpeg
SpawnEncoder(c) ==
    LET p == proc[c] IN
    /\ p.pc = "t_run"
    /\ proc' = [proc EXCEPT ![c] =
                 IF ffmpeg_installed
                 THEN [p EXCEPT !.pc = "t_wait", !.spawned = p.spawned + 1]
                 ELSE TranscoderRaise([p EXCEPT !.spawned = p.spawned + 1],
                                      EncoderNotStarted)]
    /\ UNCHANGED <<files, dirs, ffmpeg_installed>>

\* the encoder (re)writes the output file: open with O_CREAT | O_TRUNC
WriteFile(f, path, c, data) ==
    IF path \in DOMAIN f
    THEN [f EXCEPT ![path].wr = c, ![path].data = data]
    ELSE With(f, path, [by |-> c, wr |-> c, data |-> data])

\* lines 52-61: ffmpeg exits; check=True turns a non-zero status into
\* CalledProcessError, which becomes the RuntimeError of line 61
EncoderExit(c) ==
    LET p == proc[c] IN
    /\ p.pc = "t_wait"
    /\ \E rc \in {0, 1}, err \in Stderrs, wrote \in BOOLEAN :
         IF rc = 0
         THEN /\ files' = WriteFile(files, p.output_file, c, "ogg")
              /\ proc' = [proc EXCEPT ![c] =
                            TranscoderReturn([p EXCEPT !.returncode = 0])]
         ELSE /\ files' = IF wrote
                          THEN WriteFile(files, p.output_file, c, "partial")
                          ELSE files
              /\ proc' = [proc EXCEPT ![c] =
                            TranscoderRaise([p EXCEPT !.returncode = rc,
                                                      !.stderr = err],
                                            EncodingFailed(err))]
    /\ UNCHANGED <<dirs, ffmpeg_installed>>

\* -------------------------------------------- convert_to_opus_ogg_temp
StartTemp(c) ==
    /\ proc[c].pc = "idle"
    /\ \E i \in InputPaths :
         proc' = [proc EXCEPT ![c] =
                    [Idle EXCEPT !.pc = "e_alloc", !.kind = "temp",
                                 !.input_file = i]]
    /\ UNCHANGED <<files, dirs, ffmpeg_installed>>

\* variant: the name is not checked to be unused
AllocTempAnyName(c) ==
    LET p == proc[c] IN
    /\ p.pc = "e_alloc"
    /\ \E n \in TempNames :
         /\ files' = With(files, n, [by |-> c, wr |-> 0, data |-> "empty"])
         /\ proc' = [proc EXCEPT ![c] =
                       [p EXCEPT !.pc = "t_check", !.temp_file = n,
                                 !.output_arg = n, !.output_file = n]]
    /\ UNCHANGED <<dirs, ffmpeg_installed>>

\* lines 81-82: NamedTemporaryFile(suffix=".ogg", delete=False) creates a
\* file under a name that is not in use (O_CREAT | O_EXCL), and closes it
AllocTemp(c) ==
    LET p == proc[c] IN
    /\ p.pc = "e_alloc"
    /\ \E n \in TempNames :
         /\ ~Exists(n)
         /\ files' = With(files, n, [by |-> c, wr |-> 0, data |-> "empty"])
         /\ proc' = [proc EXCEPT ![c] =
                       [p EXCEPT !.pc = "t_check", !.temp_file = n,
                                 !.output_arg = n, !.output_file = n]]
    /\ UNCHANGED <<dirs, ffmpeg_installed>>

\* variant: the handler re-raises without removing the file
CleanupExistsNoUnlink(c) ==
    LET p == proc[c] IN
    /\ p.pc = "e_exists"
    /\ proc' = [proc EXCEPT ![c] = TopRaise(p, p.exc)]
    /\ UNCHANGED <<files, dirs, ffmpeg_installed>>

\* line 90 (and 92 when the file is gone): os.path.exists(temp_file.name)
CleanupExists(c) ==
    LET p == proc[c] IN
    /\ p.pc = "e_exists"
    /\ proc' = [proc EXCEPT ![c] =
                 IF Exists(p.temp_file)
                 THEN [p EXCEPT !.pc = "e_unlink"]
                 ELSE TopRaise(p, p.exc)]
    /\ UNCHANGED <<files, dirs, ffmpeg_installed>>

\* lines 91-92: os.unlink(temp_file.name); raise e
CleanupUnlink(c) ==
    LET p == proc[c] IN
    /\ p.pc = "e_unlink"
    /\ IF IsFile(p.temp_file)
       THEN /\ files' = Without(files, p.temp_file)
            /\ proc' = [proc EXCEPT ![c] = TopRaise(p, p.exc)]
       ELSE /\ files' = files
            /\ proc' = [proc EXCEPT ![c] = TopRaise(p, UnlinkMissing(p.temp_file))]
    /\ UNCHANGED <<dirs, ffmpeg_installed>>

\* ---------------------------------------------------------------- __main__
CliArgvs ==
    {<<Script>>}
    \cup {<<Script, i>> : i \in InputPaths}
    \cup {<<Script, i, o>> : i \in InputPaths, o \in ExplicitOutputs}

Usage == <<"Uso: python audio.py arquivo_entrada [arquivo_saida]">>

\* lines 99-106: the usage exit, or convert_to_opus_ogg_temp(sys.argv[1])
CliStart(c) ==
    /\ proc[c].pc = "idle"
    /\ \E argv \in CliArgvs :
         proc' = [proc EXCEPT ![c] =
                    IF Len(argv) < 2
                    THEN [Idle EXCEPT !.pc = "done", !.kind = "cli", !.argv = argv,
                                      !.printed = Usage, !.exit_status = 1]
                    ELSE [Idle EXCEPT !.pc = "e_alloc", !.kind = "cli",
                                      !.argv = argv, !.input_file = argv[2]]]
    /\ UNCHANGED <<files, dirs, ffmpeg_installed>>

\* ------------------------------------------------------------- environment
\* Another process removes a file of the temporary directory: the absence
\* that line 90 tests for.
ExternalRemove ==
    /\ \E n \in TempNames \cap DOMAIN files : files' = Without(files, n)
    /\ UNCHANGED <<proc, dirs, ffmpeg_installed>>

\* ---------------------------------------------------------- specifications
Init ==
    /\ proc = [c \in Calls |-> Idle]
    /\ files = [q \in {ExistingInput} |-> [by |-> 0, wr |-> 0, data |-> "src"]]
    /\ dirs = [d \in {TempDir} |-> 0]
    /\ ffmpeg_installed \in BOOLEAN

CallStep(c) ==
    \/ StartTranscode(c)
    \/ StartTemp(c)
    \/ CliStart(c)
    \/ CheckInput(c)
    \/ CheckOutputDir(c)
    \/ MakeDirs(c)
    \/ SpawnEncoder(c)
    \/ EncoderExit(c)
    \/ AllocTemp(c)
    \/ CleanupExists(c)
    \/ CleanupUnlink(c)

Next == (\E c \in Calls : CallStep(c)) \/ ExternalRemove

\* concurrent calls and command lines, with a temporary directory that
\* other processes may clean
Spec == Init /\ [][Next]_vars

\* the steps of a call of convert_to_opus_ogg_temp (its output directory,
\* the temporary directory, is always there: line 33 is never reached)
EphemeralStep(c) ==
    \/ StartTemp(c)
    \/ AllocTemp(c)
    \/ CheckInput(c)
    \/ CheckOutputDir(c)
    \/ SpawnEncoder(c)
    \/ EncoderExit(c)
    \/ CleanupExists(c)
    \/ CleanupUnlink(c)

NextEphemeralQuiet == \E c \in Calls : EphemeralStep(c)

NextEphemeral == NextEphemeralQuiet \/ ExternalRemove

\* concurrent calls of convert_to_opus_ogg_temp, with a temporary directory
\* that other processes may clean
SpecEphemeral == Init /\ [][NextEphemeral]_vars

\* concurrent calls of convert_to_opus_ogg_temp, with nobody else touching
\* the temporary directory
SpecEphemeralQuiet == Init /\ [][NextEphemeralQuiet]_vars

\* concurrent calls of convert_to_opus_ogg
NextTranscoder ==
    \E c \in Calls :
        \/ StartTranscode(c)
        \/ CheckInput(c)
        \/ CheckOutputDir(c)
        \/ MakeDirs(c)
        \/ SpawnEncoder(c)
        \/ EncoderExit(c)

SpecTranscoder == Init /\ [][NextTranscoder]_vars

\* concurrent calls of either function
NextFunctions ==
    \/ \E c \in Calls : StartTranscode(c) \/ MakeDirs(c) \/ EphemeralStep(c)
    \/ ExternalRemove

SpecFunctions == Init /\ [][NextFunctions]_vars

\* ------------------------------------------------ the path-derivation check
\* Every path of at most MaxLen characters that can name a regular file
\* exists in turn, and is converted with no output path given.
PathAlphabet == {"a", ".", "/"}
PathStrings == UNION {[1..n -> PathAlphabet] : n \in 1..MaxLen}
Basename(p) == SubSeq(p, RFind(p, "/") + 1, Len(p))
FilePaths == {p \in PathStrings : Basename(p) \notin {<<>>, <<".">>, <<".", ".">>}}

InitPath ==
    /\ proc = [c \in Calls |-> Idle]
    /\ \E path \in FilePaths :
         /\ files = [q \in {path} |-> [by |-> 0, wr |-> 0, data |-> "src"]]
         /\ dirs = [d \in {TempDir} \cup ({Dirname(path)} \ {<<>>}) |-> 0]
    /\ ffmpeg_installed \in BOOLEAN

\* convert_to_opus_ogg(input_file) on a file that is there, output_file=None
StartDerived(c) ==
    /\ proc[c].pc = "idle"
    /\ \E i \in DOMAIN files :
         /\ files[i].data = "src"
         /\ proc' = [proc EXCEPT ![c] =
                       [Idle EXCEPT !.pc = "t_check", !.kind = "transcode",
                                    !.input_file = i]]
    /\ UNCHANGED <<files, dirs, ffmpeg_installed>>

NextPath ==
    \E c \in Calls :
        \/ StartDerived(c)
        \/ CheckInput(c)
        \/ CheckOutputDir(c)
        \/ SpawnEncoder(c)
        \/ EncoderExit(c)

SpecPath == InitPath /\ [][NextPath]_vars

\* ------------------------------------------------------------------ claims
Started(c) == proc[c].pc # "idle" /\ proc[c].input_file # None
Done(c) == proc[c].pc = "done"
Ephemeral(c) == proc[c].kind \in {"temp", "cli"} /\ proc[c].input_file # None
Direct(c) == proc[c].kind = "transcode"
\* the exception convert_to_opus_ogg itself raised in call c, if any
TranscoderExc(c) == IF Direct(c) THEN proc[c].exc ELSE proc[c].delegated
TranscoderOver(c) == Started(c) /\ proc[c].pc \in {"done", "e_exists", "e_unlink"}
\* call c ended in an error
Failed(c) == Done(c) /\ proc[c].exc # NoExc
\* the temporary file that call c itself allocated (or its encoder
\* re-created under that name) is there
OwnTempFileThere(c) ==
    /\ proc[c].temp_file \in DOMAIN files
    /\ files[proc[c].temp_file].by = c

\* C1: whenever a call of convert_to_opus_ogg_temp has ended in an error,
\* whatever raised it, the temporary file that call allocated is not there.
C1_FailedTempFileGone ==
    \A c \in Calls : Ephemeral(c) /\ Failed(c) => ~OwnTempFileThere(c)

\* a call whose encoder exited non-zero has ended in RuntimeError, and the
\* temporary file it had allocated is gone
C1_Witness ==
    \E c \in Calls :
        /\ proc[c].kind = "temp" /\ Failed(c)
        /\ proc[c].returncode = 1
        /\ proc[c].exc.type = "RuntimeError"
        /\ proc[c].temp_file # None
        /\ ~Exists(proc[c].temp_file)

\* C2 as stated: on a nonexistent input both functions fail with
\* InputNotFound, and the call creates no directory and, at no point, any
\* temporary file.
C2_NoMutationOnMissingInput ==
    \A c \in Calls :
        Started(c) /\ ~IsFile(proc[c].input_file) =>
            /\ Done(c) => proc[c].exc = InputNotFound(proc[c].input_file)
            /\ \A d \in DOMAIN dirs : dirs[d] # c
            /\ \A f \in DOMAIN files : files[f].by # c
            /\ proc[c].temp_file = None

\* C2 as amended: on a nonexistent input convert_to_opus_ogg fails with
\* InputNotFound without creating anything; convert_to_opus_ogg_temp
\* creates no directory and no file but its temporary file, its delegated
\* call raises InputNotFound, the error it ends in is a FileNotFoundError,
\* and its temporary file is gone once it has ended.
C2_MissingInputLeavesNothing ==
    \A c \in Calls :
        Started(c) /\ ~IsFile(proc[c].input_file) =>
            /\ \A d \in DOMAIN dirs : dirs[d] # c
            /\ proc[c].spawned = 0
            /\ Direct(c) =>
                 /\ \A f \in DOMAIN files : files[f].by # c
                 /\ Done(c) => proc[c].exc = InputNotFound(proc[c].input_file)
            /\ Ephemeral(c) =>
                 /\ \A f \in DOMAIN files : files[f].by = c => f = proc[c].temp_file
                 /\ TranscoderOver(c) =>
                      proc[c].delegated = InputNotFound(proc[c].input_file)
                 /\ Done(c) =>
                      /\ ~OwnTempFileThere(c)
                      /\ proc[c].exc.type = "FileNotFoundError"
                      /\ proc[c].result = None

\* both functions have ended on the missing input, the temporary file of
\* the second having been created and removed
C2_Witness ==
    \E c, d \in Calls :
        /\ Direct(c) /\ Failed(c) /\ proc[c].input_file = MissingInput
        /\ proc[d].kind = "temp" /\ Failed(d) /\ proc[d].input_file = MissingInput
        /\ proc[d].temp_file \in TempNames
        /\ ~Exists(proc[d].temp_file)

\* C3: when the encoder has exited with a non-zero status, the exception of
\* convert_to_opus_ogg is a RuntimeError whose message ends with exactly
\* the captured standard error, and the call returns no path.
C3_NonZeroExitCarriesStderr ==
    \A c \in Calls :
        proc[c].returncode \notin {NotRun, 0} =>
            LET e == TranscoderExc(c) IN
            /\ e.type = "RuntimeError"
            /\ Len(e.msg) = 1 + Len(proc[c].stderr)
            /\ SubSeq(e.msg, 2, Len(e.msg)) = proc[c].stderr
            /\ proc[c].result = None

C3_Witness ==
    \E c \in Calls :
        /\ Direct(c) /\ Done(c)
        /\ proc[c].returncode = 1
        /\ proc[c].stderr = <<"ffmpeg: command not found">>
        /\ proc[c].exc.type = "RuntimeError"

\* C4: when the delegated call of convert_to_opus_ogg_temp has failed, the
\* error the call ends in is that failure, unchanged.
C4_OriginalErrorReachesCaller ==
    \A c \in Calls :
        Ephemeral(c) /\ Done(c) /\ proc[c].delegated # NoExc =>
            proc[c].exc = proc[c].delegated

\* C5: no call fails because the output directory already exists.
C5_DirCreationTolerant ==
    \A c \in Calls : Started(c) => TranscoderExc(c).type # "FileExistsError"

\* a temporary allocation is live from its creation until the call has
\* ended in an error (after a success the caller owns the file)
LiveAlloc(c) == Ephemeral(c) /\ proc[c].temp_file # None /\ ~Failed(c)

\* C6: while an allocation is live its file is there, is the one that call
\* created, has been written by no other call's encoder, and no other live
\* allocation has the same name.
C6_ExclusiveTempNames ==
    \A c \in Calls :
        LiveAlloc(c) =>
            /\ IsFile(proc[c].temp_file)
            /\ files[proc[c].temp_file].by = c
            /\ files[proc[c].temp_file].wr \in {0, c}
            /\ \A d \in Calls \ {c} :
                 LiveAlloc(d) => proc[d].temp_file # proc[c].temp_file

\* two calls have their encoders running at once, each on its own file
C6_Witness ==
    \E c, d \in Calls :
        /\ c # d
        /\ proc[c].kind = "temp" /\ proc[d].kind = "temp"
        /\ proc[c].pc = "t_wait" /\ proc[d].pc = "t_wait"
        /\ proc[c].temp_file # proc[d].temp_file

\* C7: a failure of convert_to_opus_ogg on an input that is a file is a
\* RuntimeError (EncodingFailed), never the FileNotFoundError of a missing
\* input.
C7_ExistingInputFailsAsEncodingFailed ==
    \A c \in Calls :
        Direct(c) /\ Failed(c) /\ IsFile(proc[c].input_file) =>
            proc[c].exc.type = "RuntimeError"

\* the final extension of a path: from the last dot of its last component
\* on, provided a character other than a dot precedes it in that component
HasExtension(p) ==
    \E i, j \in (RFind(p, "/") + 1)..Len(p) : i < j /\ p[i] # "." /\ p[j] = "."
IsFinalExtensionOf(ext, p) ==
    /\ Len(ext) <= Len(p)
    /\ SubSeq(p, Len(p) - Len(ext) + 1, Len(p)) = ext
    /\ IF HasExtension(p)
       THEN /\ ext # <<>>
            /\ ext[1] = "."
            /\ \A i \in 2..Len(ext) : ext[i] \notin {".", "/"}
       ELSE ext = <<>>

\* C8: with no output path given, the returned path is the input path with
\* its final extension replaced by .ogg, in the same directory, and two
\* calls on the same input return the same path.
C8_DerivedOutputPath ==
    \A c \in Calls :
        Direct(c) /\ Done(c) /\ proc[c].output_arg = None /\ proc[c].result # None =>
            LET inp == proc[c].input_file
                out == proc[c].result
                stem == SubSeq(out, 1, Len(out) - Len(Ogg))
            IN  /\ Len(out) >= Len(Ogg)
                /\ SubSeq(out, Len(out) - Len(Ogg) + 1, Len(out)) = Ogg
                /\ Len(stem) <= Len(inp)
                /\ SubSeq(inp, 1, Len(stem)) = stem
                /\ IsFinalExtensionOf(SubSeq(inp, Len(stem) + 1, Len(inp)), inp)
                /\ RFind(out, "/") = RFind(inp, "/")
                /\ \A d \in Calls :
                     /\ Direct(d) /\ Done(d) /\ proc[d].output_arg = None
                     /\ proc[d].result # None /\ proc[d].input_file = inp
                     => proc[d].result = out

\* a file with an extension, in a directory, has been converted
C8_Witness ==
    \E c \in Calls :
        /\ Direct(c) /\ Done(c) /\ proc[c].output_arg = None
        /\ proc[c].input_file = <<"/", "a", ".", "a">>
        /\ proc[c].result = <<"/", "a">> \o Ogg
        /\ IsFile(proc[c].result)

\* C9: the command line converts into the output path it is given (no
\* temporary file), uses convert_to_opus_ogg_temp when given none, prints
\* the resulting path on success and exits non-zero on a failure.
C9_CliHonoursOutputArgument ==
    \A c \in Calls :
        proc[c].kind = "cli" /\ Done(c) /\ Len(proc[c].argv) >= 2 =>
            /\ Len(proc[c].argv) = 3 =>
                 /\ proc[c].temp_file = None
                 /\ proc[c].exc = NoExc => proc[c].result = proc[c].argv[3]
            /\ Len(proc[c].argv) = 2 => proc[c].temp_file # None
            /\ proc[c].exc = NoExc =>
                 /\ proc[c].exit_status = 0
                 /\ proc[c].printed =
                      <<"Convertido com sucesso para: ">> \o proc[c].result
            /\ proc[c].exc # NoExc => proc[c].exit_status # 0

\* C10: a call on a missing input starts no encoder, no call starts more
\* than one, and a call of convert_to_opus_ogg that is over on an input
\* that is a file has started exactly one.
C10_ExactlyOneSpawn ==
    \A c \in Calls :
        Started(c) =>
            /\ proc[c].spawned <= 1
            /\ ~IsFile(proc[c].input_file) => proc[c].spawned = 0
            /\ TranscoderOver(c) /\ IsFile(proc[c].input_file) => proc[c].spawned = 1

====
